---- MODULE Spec2Model ----
(***************************************************************************)
(* Walking-route resolution session of kl-artmap: the useWalkingRoutes     *)
(* hook (fetchRoutes / clearRoutes / switchActiveRoute), the map adapter   *)
(* calls it makes, the station directory and the indoor catalog.           *)
(*                                                                         *)
(* Execution model: one JavaScript thread.  A handler runs to its first    *)
(* await that waits on the network (a directions fetch, the dynamic import *)
(* inside addRouteEndpointMarkers); each continuation is one action.       *)
(* Coordinates are points of one meridian, given in metres of arc, so the  *)
(* haversine distance of two points is the absolute difference.            *)
(* A route id `walking-route-k` is the integer k, `null` is NULL.          *)
(***************************************************************************)
EXTENDS Integers, Sequences, FiniteSets, TLC

\* ---------------------------------------------------------------- bounds
\* Calls of fetchRoutes and switchActiveRoute one behaviour makes, in total.
MaxCalls == 4

\* ------------------------------------------------------------- constants
NULL == -1
MAX_WALK_SECONDS == 900
PREFILTER_RADIUS_M == 2000
INDOOR_DETOUR_M == 150
NoError == "null"
FailedToLoad == "Failed to load walking directions"

\* Durations (seconds) a successful directions response may carry.
Durations == {0, 250, 1000}

\* Route ids a caller may pass to switchActiveRoute.
SwitchIds == {0, 1}

\* ------------------------------------------------------ reference data
\* Station directory, in directory (Object.values) order.
stationCoordinates ==
  << [name |-> "KL Sentral",
      exits |-> << [exitName |-> "Exit A - Street Level", coordinates |-> 0],
                   [exitName |-> "NU Sentral Mall", coordinates |-> 300] >>],
     [name |-> "Pasar Seni",
      exits |-> << [exitName |-> "Entrance A - Jalan Sultan", coordinates |-> 1000] >>],
     [name |-> "KLCC",
      exits |-> << [exitName |-> "Main Exit", coordinates |-> 50000] >>],
     [name |-> "Persiaran KLCC",
      exits |-> << [exitName |-> "Main Exit", coordinates |-> 50500] >>] >>

\* Indoor catalog, in catalog order.
indoorConnections ==
  << [id |-> <<"kl-sentral-nu-sentral">>,
      name |-> <<"KL Sentral", "NU Sentral Mall">>,
      start |-> [name |-> "KL Sentral Level 2", coordinates |-> 300],
      end |-> [name |-> "NU Sentral Mall Entrance", coordinates |-> 150],
      distance |-> 150,
      duration |-> 300,
      features |-> {"air-conditioned", "covered"},
      isBidirectional |-> TRUE] >>

\* Destinations selected one after the other when routes are clicked: both
\* have the two stations in radius, so both draw walking-route-0 and -1.
ClickLocations == {100, 900}

\* Destinations (Location.coordinates) a user can select.
\*   100  : both stations in radius, the NU Sentral exit has an indoor link
\*   6000 : no station in radius
Locations == {100, 6000}

\* ------------------------------------------------------------- strings
\* A string the code inspects is the sequence of its characters.
Spell ==
  ("KL Sentral" :> <<"K", "L", " ", "S", "e", "n", "t", "r", "a", "l">>) @@
  ("Pasar Seni" :> <<"P", "a", "s", "a", "r", " ", "S", "e", "n", "i">>) @@
  ("KLCC" :> <<"K", "L", "C", "C">>) @@
  ("Persiaran KLCC" :> <<"P", "e", "r", "s", "i", "a", "r", "a", "n", " ", "K", "L", "C", "C">>) @@
  ("constructor" :> <<"c", "o", "n", "s", "t", "r", "u", "c", "t", "o", "r">>) @@
  ("toString" :> <<"t", "o", "S", "t", "r", "i", "n", "g">>)

\* String.prototype.toLowerCase, for the letters that occur.
LowerChar(c) ==
  CASE c = "C" -> "c"
    [] c = "K" -> "k"
    [] c = "L" -> "l"
    [] c = "P" -> "p"
    [] c = "S" -> "s"
    [] OTHER -> c

toLowerCase(str) == [i \in 1..Len(str) |-> LowerChar(str[i])]

\* String.prototype.includes
includes(str, searchString) ==
  \E i \in 0..(Len(str) - Len(searchString)) :
     SubSeq(str, i + 1, i + Len(searchString)) = searchString

\* ------------------------------------------------------- geo utilities
haversineMeters(a, b) == IF a >= b THEN a - b ELSE b - a

\* Stable insertion of a <<key, value>> pair: after every pair whose key is
\* not greater (Array.prototype.sort is stable).
RECURSIVE InsertByKey(_, _)
InsertByKey(sorted, p) ==
  IF sorted = <<>> THEN <<p>>
  ELSE IF p[1] < Head(sorted)[1] THEN <<p>> \o sorted
       ELSE <<Head(sorted)>> \o InsertByKey(Tail(sorted), p)

RECURSIVE SortByKey(_)
SortByKey(pairs) ==
  IF pairs = <<>> THEN <<>>
  ELSE InsertByKey(SortByKey(SubSeq(pairs, 1, Len(pairs) - 1)), pairs[Len(pairs)])

\* Variant: the distance to the first exit stands for the station.
SeqMin_First(s) == s[1]

\* Math.min(...s)
SeqMin(s) == CHOOSE m \in {s[i] : i \in 1..Len(s)} : \A i \in 1..Len(s) : m <= s[i]

\* ---------------------------------------------------- station directory
getStationsWithinRadius(coordinates, radiusMeters) ==
  LET entries == [i \in 1..Len(stationCoordinates) |->
                    << SeqMin([j \in 1..Len(stationCoordinates[i].exits) |->
                                 haversineMeters(coordinates,
                                   stationCoordinates[i].exits[j].coordinates)]),
                       stationCoordinates[i] >>]
      within == SelectSeq(entries, LAMBDA e : e[1] <= radiusMeters)
      sorted == SortByKey(within)
  IN [i \in 1..Len(sorted) |-> sorted[i][2]]

\* key.toLowerCase().includes(lowerName) || lowerName.includes(key.toLowerCase())
MatchPartial(key, lowerName) ==
  includes(toLowerCase(key), lowerName) \/ includes(lowerName, toLowerCase(key))

\* key.toLowerCase() === lowerName
MatchExact(key, lowerName) == toLowerCase(key) = lowerName

\* Property names every object literal inherits from Object.prototype (two of
\* them): stationCoordinates[name] reads them as it reads the directory's keys.
ObjectPrototype == {"constructor", "toString"}

\* stationCoordinates[stationName]: the directory's own entry, else the
\* inherited member of that name (a function, not a station), else undefined.
PropertyLookup(stationName) ==
  LET own == SelectSeq(stationCoordinates, LAMBDA st : Spell[st.name] = stationName)
      inherited == {p \in ObjectPrototype : Spell[p] = stationName}
  IN IF own # <<>> THEN <<own[1]>>
     ELSE IF inherited # {} THEN <<[inherited |-> CHOOSE p \in inherited : TRUE]>>
     ELSE <<>>

\* getStationData(stationName): the value returned, as a sequence of one, or
\* the empty sequence for null.
getStationData(stationName) ==
  LET direct == PropertyLookup(stationName)
      lowerName == toLowerCase(stationName)
      exact == SelectSeq(stationCoordinates, LAMBDA st : MatchExact(Spell[st.name], lowerName))
      partial == SelectSeq(stationCoordinates,
                           LAMBDA st : MatchPartial(Spell[st.name], lowerName))
  IN IF direct # <<>> THEN <<direct[1]>>
     ELSE IF exact # <<>> THEN <<exact[1]>>
     ELSE IF partial # <<>> THEN <<partial[1]>>
     ELSE <<>>

resolveStations(location) == getStationsWithinRadius(location, PREFILTER_RADIUS_M)

\* ------------------------------------------------------- indoor catalog
Reverse(s) == [i \in 1..Len(s) |-> s[Len(s) + 1 - i]]

\* Variant: every connection is walked both ways.
Reversible_Always(connection) == TRUE

\* if (connection.isBidirectional)
Reversible(connection) == connection.isBidirectional

\* The loop over the catalog the module holds, from entry i on.
RECURSIVE RelevantFrom(_, _, _, _, _)
RelevantFrom(catalog, i, from, to, maxDetourMeters) ==
  IF i > Len(catalog) THEN <<>>
  ELSE LET connection == catalog[i]
           distToStart == haversineMeters(from, connection.start.coordinates)
           distFromEnd == haversineMeters(connection.end.coordinates, to)
           distToEnd == haversineMeters(from, connection.end.coordinates)
           distFromStart == haversineMeters(connection.start.coordinates, to)
           forward == IF distToStart <= maxDetourMeters /\ distFromEnd <= maxDetourMeters
                      THEN <<connection>> ELSE <<>>
           reversed == IF Reversible(connection)
                          /\ distToEnd <= maxDetourMeters
                          /\ distFromStart <= maxDetourMeters
                       THEN << [connection EXCEPT
                                  !.id = connection.id \o <<"reverse">>,
                                  !.name = Reverse(connection.name),
                                  !.start = connection.end,
                                  !.end = connection.start] >>
                       ELSE <<>>
       IN forward \o reversed \o RelevantFrom(catalog, i + 1, from, to, maxDetourMeters)

findRelevantIndoorConnections(from, to, maxDetourMeters) ==
  RelevantFrom(indoorConnections, 1, from, to, maxDetourMeters)

\* -------------------------------------------------- directions gateway
\* process.env.NEXT_PUBLIC_MAPBOX_ACCESS_TOKEN: unset, or a token.
NoToken == ""
AccessTokens == {NoToken, "pk.token"}

\* How a call ends: it returns a value, or it throws an error of some name.
\* `fetched` tells whether fetch() was called, i.e. a network request sent.
Returned(value, fetched) ==
  [kind |-> "returned", name |-> "", value |-> value, fetched |-> fetched]
Thrown(name, fetched) ==
  [kind |-> "thrown", name |-> name, value |-> <<>>, fetched |-> fetched]

getAccessToken(token) ==
  IF token = NoToken THEN Thrown("Error", FALSE) ELSE Returned(token, FALSE)

\* What the network does with one request: fetch() rejects (AbortError when
\* the signal is aborted, TypeError when the network is down) or resolves to
\* a response; res.json() rejects (AbortError, SyntaxError) or gives the body.
NetworkFailures ==
  {[fetch |-> "AbortError", ok |-> FALSE, json |-> "none", body |-> <<>>],
   [fetch |-> "TypeError", ok |-> FALSE, json |-> "none", body |-> <<>>],
   [fetch |-> "response", ok |-> FALSE, json |-> "none", body |-> <<>>],
   [fetch |-> "response", ok |-> TRUE, json |-> "AbortError", body |-> <<>>],
   [fetch |-> "response", ok |-> TRUE, json |-> "SyntaxError", body |-> <<>>]}

Parsed(body) == [fetch |-> "response", ok |-> TRUE, json |-> "parsed", body |-> body]

\* The responses of the Directions API to a request from start to end.
DirectionsNetworks(start, end) ==
  NetworkFailures \cup
  {Parsed([code |-> "NoRoute", routes |-> <<>>]),
   Parsed([code |-> "Ok", routes |-> <<>>])} \cup
  {Parsed([code |-> "Ok",
           routes |-> << [distance |-> haversineMeters(start, end), duration |-> t,
                          geometry |-> <<start, end>>] >>]) : t \in Durations}

\* The responses of the Matrix API for one origin and its destinations; a
\* body with code Ok and no rows makes data.distances[0] throw a TypeError.
MatrixNetworks(origin, destinations) ==
  NetworkFailures \cup
  {Parsed([code |-> "NoRoute", distances |-> <<>>, durations |-> <<>>]),
   Parsed([code |-> "Ok", distances |-> <<>>, durations |-> <<>>])} \cup
  {Parsed([code |-> "Ok",
           distances |-> << [i \in 1..Len(destinations) |->
                               haversineMeters(origin, destinations[i])] >>,
           durations |-> << [i \in 1..Len(destinations) |-> t] >>]) : t \in Durations}

\* The part of a gateway call up to `const data = await res.json()`: the
\* URL is built (getAccessToken is called in it) before fetch() is called.
FetchJson(token, network) ==
  IF getAccessToken(token).kind = "thrown" THEN Thrown("Error", FALSE)
  ELSE IF network.fetch # "response" THEN Thrown(network.fetch, TRUE)
  ELSE IF ~network.ok THEN Thrown("Error", TRUE)
  ELSE IF network.json # "parsed" THEN Thrown(network.json, TRUE)
  ELSE Returned(network.body, TRUE)

\* Variant: the catch block turns every error into the failed result.
GatewayCatch_Swallow(tried, failed) ==
  IF tried.kind = "thrown" THEN Returned(failed, tried.fetched) ELSE tried

\* The catch block of both gateway functions: an AbortError is rethrown,
\* any other error becomes the failed result.
GatewayCatch(tried, failed) ==
  IF tried.kind = "thrown"
  THEN IF tried.name = "AbortError" THEN tried ELSE Returned(failed, tried.fetched)
  ELSE tried

FailedMatrix == [success |-> FALSE, distances |-> <<>>, durations |-> <<>>]

\* fetchMatrixDistances(origin, destinations, signal) with the given token
\* and network behaviour.
fetchMatrixDistances(origin, destinations, token, network) ==
  LET data == FetchJson(token, network)
      tried == IF data.kind = "thrown" THEN data
               ELSE IF data.value.code # "Ok" THEN Thrown("Error", TRUE)
               ELSE IF Len(data.value.distances) = 0 THEN Thrown("TypeError", TRUE)
               ELSE Returned([success |-> TRUE,
                              distances |-> data.value.distances[1],
                              durations |-> data.value.durations[1]], TRUE)
  IN GatewayCatch(tried, FailedMatrix)

\* The failed result of fetchDirectionsRoute's catch block.
FailedDirections ==
  [success |-> FALSE, distance |-> 0, duration |-> 0, geometry |-> <<>>]

\* fetchDirectionsRoute(start, end, signal) with the given token and
\* network behaviour.
DirectionsCall(start, end, token, network) ==
  LET data == FetchJson(token, network)
      tried == IF data.kind = "thrown" THEN data
               ELSE IF data.value.code # "Ok" \/ Len(data.value.routes) = 0
                    THEN Thrown("Error", TRUE)
               ELSE Returned([success |-> TRUE,
                              distance |-> data.value.routes[1].distance,
                              duration |-> data.value.routes[1].duration,
                              geometry |-> data.value.routes[1].geometry], TRUE)
  IN GatewayCatch(tried, FailedDirections)

\* What fetchDirectionsRoute can resolve to: the value of every call that
\* returns.  (A call that throws AbortError rejects; its signal is aborted.)
fetchDirectionsRoute(start, end) ==
  LET calls == {DirectionsCall(start, end, token, network) :
                  token \in AccessTokens, network \in DirectionsNetworks(start, end)}
  IN {c.value : c \in {d \in calls : d.kind = "returned"}}

\* ------------------------------------------------------ route resolver
\* allExitCombos: every (station, exit) pair, stations in pre-filter order.
RECURSIVE allExitCombos(_)
allExitCombos(stations) ==
  IF stations = <<>> THEN <<>>
  ELSE [j \in 1..Len(Head(stations).exits) |->
          [station |-> Head(stations), exit |-> Head(stations).exits[j]]]
       \o allExitCombos(Tail(stations))

\* Variant: the last returned connection is used.
bestIndoor_Last(indoorConns) == indoorConns[Len(indoorConns)]

\* const bestIndoor = indoorConns[0]
bestIndoor(indoorConns) == indoorConns[1]

\* The synthetic result built from the first returned indoor connection.
IndoorResult(connection) ==
  [success |-> TRUE,
   distance |-> connection.distance,
   duration |-> connection.duration,
   geometry |-> <<connection.start.coordinates, connection.end.coordinates>>,
   isIndoor |-> TRUE,
   indoorFeatures |-> connection.features]

\* TRUE when the combo is served from the catalog and no request is sent.
UsesIndoor(combo, origin) ==
  Len(findRelevantIndoorConnections(combo.exit.coordinates, origin, INDOOR_DETOUR_M)) > 0

\* The settled results once every request has answered; answers[i] is the
\* gateway's answer for combo i (ignored for an indoor combo).
directionsResults(combos, origin, answers) ==
  [i \in 1..Len(combos) |->
     IF UsesIndoor(combos[i], origin)
     THEN [status |-> "fulfilled",
           value |-> IndoorResult(bestIndoor(findRelevantIndoorConnections(
                        combos[i].exit.coordinates, origin, INDOOR_DETOUR_M)))]
     ELSE [status |-> "fulfilled",
           value |-> [success |-> answers[i].success,
                      distance |-> answers[i].distance,
                      duration |-> answers[i].duration,
                      geometry |-> answers[i].geometry,
                      isIndoor |-> FALSE]]]

\* Variant: an indoor route gets no bonus.
Score10_NoBonus(route) == route.duration * 10

\* score * 10, so that duration * 0.7 stays an integer.
Score10(route) == IF route.isIndoor THEN route.duration * 7 ELSE route.duration * 10

\* Map.get / Map.set on an insertion-ordered list of entries keyed by name.
MapHas(m, key) == \E k \in 1..Len(m) : m[k].key = key
MapGet(m, key) == m[CHOOSE k \in 1..Len(m) : m[k].key = key]
MapSet(m, key, entry) ==
  IF MapHas(m, key)
  THEN [k \in 1..Len(m) |-> IF m[k].key = key THEN entry ELSE m[k]]
  ELSE Append(m, entry)

\* Variant: the Map is keyed by exit instead of by station.
StationKey_PerExit(combo) == combo.exit.exitName

StationKey(combo) == combo.station.name

\* Variant: a failed result is kept as a candidate.
Skipped_OnlyRejected(dirResult) == dirResult.status # "fulfilled"

\* dirResult.status !== 'fulfilled' || !dirResult.value.success
Skipped(dirResult) == dirResult.status # "fulfilled" \/ ~dirResult.value.success

\* Variant: a later exit with an equal score replaces the earlier one.
Better_OrEqual(routeScore, existingScore) == routeScore <= existingScore

\* routeScore < existingScore
Better(routeScore, existingScore) == routeScore < existingScore

\* stationBestExits after the forEach over combos 1..n.
RECURSIVE stationBestExits(_, _, _)
stationBestExits(combos, results, n) ==
  IF n = 0 THEN <<>>
  ELSE LET prev == stationBestExits(combos, results, n - 1)
           combo == combos[n]
           dirResult == results[n]
       IN IF Skipped(dirResult) THEN prev
          ELSE LET route == dirResult.value
                   key == StationKey(combo)
                   better == IF MapHas(prev, key)
                             THEN Better(Score10(route), Score10(MapGet(prev, key).route))
                             ELSE TRUE
               IN IF better
                  THEN MapSet(prev, key, [key |-> key, exit |-> combo.exit,
                                          route |-> route, station |-> combo.station])
                  ELSE prev

\* routes: one WalkingRouteData per entry, numbered in Map order (0-based).
\* formattedDistance, formattedDuration, steps, lines and exitDescription are
\* carried along by the code and never read by the session; they are left out.
BuildRoutes(best) ==
  [k \in 1..Len(best) |->
     [stationName |-> best[k].station.name,
      exitName |-> best[k].exit.exitName,
      coordinates |-> best[k].exit.coordinates,
      distance |-> best[k].route.distance,
      duration |-> best[k].route.duration,
      geometry |-> best[k].route.geometry,
      routeId |-> k - 1,
      hasIndoorRoute |-> best[k].route.isIndoor,
      indoorPercentage |-> IF best[k].route.isIndoor THEN 100 ELSE 0,
      indoorFeatures |-> IF "indoorFeatures" \in DOMAIN best[k].route
                         THEN best[k].route.indoorFeatures ELSE {}]]

\* Variant: the filter forgets the 15-minute ceiling.
Walkable_NoCeiling(r) == r.duration > 0

Walkable(r) == r.duration > 0 /\ r.duration <= MAX_WALK_SECONDS

\* Variant: the list is ordered by the indoor-adjusted score.
SortKey_Score(r) == IF r.hasIndoorRoute THEN r.duration * 7 ELSE r.duration * 10

SortKey(r) == r.duration

walkableRoutes(routes) ==
  LET kept == SelectSeq(routes, Walkable)
      sorted == SortByKey([k \in 1..Len(kept) |-> <<SortKey(kept[k]), kept[k]>>])
  IN [k \in 1..Len(sorted) |-> sorted[k][2]]

\* The list a resolution publishes for the given answers.
ResolveRoutes(location, answers) ==
  LET combos == allExitCombos(resolveStations(location))
      results == directionsResults(combos, location, answers)
  IN walkableRoutes(BuildRoutes(stationBestExits(combos, results, Len(combos))))

\* getStationRouteInfo(stationName) over the published list: the route found,
\* as a sequence of one, or the empty sequence for undefined.
getStationRouteInfo(routes, stationName) ==
  LET lower == toLowerCase(stationName)
      found == SelectSeq(routes,
                 LAMBDA r : LET rLower == toLowerCase(Spell[r.stationName])
                            IN \/ rLower = lower
                               \/ includes(lower, rLower)
                               \/ includes(rLower, lower))
  IN IF found # <<>> THEN <<found[1]>> ELSE <<>>

\* ---------------------------------------------------------- map adapter
\* The style of the map: sources (one per route id) and the layer stack,
\* bottom first.  A source remembers the resolution that drew it.
addRouteLayer(style, routeId, geometry, isActive, gen) ==
  IF \E s \in style.sources : s.id = routeId THEN style
  ELSE [sources |-> style.sources \cup {[id |-> routeId, geometry |-> geometry, gen |-> gen]},
        layers |-> style.layers \o
                   << [id |-> routeId, casing |-> TRUE, active |-> isActive],
                      [id |-> routeId, casing |-> FALSE, active |-> isActive] >>]

clearRouteLayers(style, routeIds) ==
  LET ids == {routeIds[k] : k \in 1..Len(routeIds)}
  IN [sources |-> {s \in style.sources : s.id \notin ids},
      layers |-> SelectSeq(style.layers, LAMBDA l : l.id \notin ids)]

\* moveLayer(id) without a `before`: the layer goes to the top of the stack.
moveLayer(layers, id, casing) ==
  SelectSeq(layers, LAMBDA l : ~(l.id = id /\ l.casing = casing))
  \o SelectSeq(layers, LAMBDA l : l.id = id /\ l.casing = casing)

setActiveRoute(style, activeId, allRouteIds) ==
  LET ids == {allRouteIds[k] : k \in 1..Len(allRouteIds)}
      painted == [k \in 1..Len(style.layers) |->
                    IF style.layers[k].id \in ids
                    THEN [style.layers[k] EXCEPT !.active = (style.layers[k].id = activeId)]
                    ELSE style.layers[k]]
  IN [sources |-> style.sources,
      layers |-> moveLayer(moveLayer(painted, activeId, TRUE), activeId, FALSE)]

\* The two markers addRouteEndpointMarkers puts on the map and returns:
\* a pin at `start` (the venue) and a pin at `end` (the station exit).
addRouteEndpointMarkers(by, start, end) ==
  << [by |-> by, pin |-> "venue", lngLat |-> start],
     [by |-> by, pin |-> "station", lngLat |-> end] >>

MarkerSet(markers) == {markers[k] : k \in 1..Len(markers)}

\* Marker.remove() for each marker of the list.
clearMarkers(onMap, markers) == onMap \ MarkerSet(markers)

\* map.getLayer(routeId): the route's line layer is in the style (its casing
\* layer is added and removed with it).
getLayer(style, routeId) == \E k \in 1..Len(style.layers) : style.layers[k].id = routeId

\* The loop `map.on('click', layerId, ...)` of fetchRoutes over the walkable
\* routes whose layers exist.  A listener registered again for the same
\* layer and destination is kept once.
RegisterClickHandlers(handlers, routes, style, origin) ==
  [routeId \in DOMAIN handlers |->
     IF /\ \E k \in 1..Len(routes) : routes[k].routeId = routeId
        /\ getLayer(style, routeId)
        /\ \A k \in 1..Len(handlers[routeId]) : handlers[routeId][k] # origin
     THEN Append(handlers[routeId], origin)
     ELSE handlers[routeId]]

\* The drawing loop of fetchRoutes: one addRouteLayer per walkable route that
\* has a geometry, when a map was supplied.
RECURSIVE DrawRoutes(_, _, _, _, _)
DrawRoutes(style, routes, n, map, gen) ==
  IF n = 0 THEN [style |-> style, newRouteIds |-> <<>>]
  ELSE LET prev == DrawRoutes(style, routes, n - 1, map, gen)
           route == routes[n]
       IN IF route.geometry # <<>> /\ map
          THEN [style |-> addRouteLayer(prev.style, route.routeId, route.geometry, n = 1, gen),
                newRouteIds |-> Append(prev.newRouteIds, route.routeId)]
          ELSE prev

\* ===================================================================
\* Session state
\* ===================================================================
VARIABLES
  routeData,        \* useState: the published route list
  isLoading,        \* useState
  error,            \* useState: NoError or the error text
  activeRouteId,    \* useState: NULL or a route id
  abortRef,         \* useRef: 0 (null) or the number of the current controller
  activeRouteIds,   \* useRef: ids of the drawn route layers
  endpointMarkers,  \* useRef: the markers the session tracks
  routeDataRef,     \* useRef: the list switchActiveRoute looks routes up in
  mapRef,           \* page: TRUE once the map has loaded (mapRef.current # null)
  mapStyle,         \* map: [sources, layers]
  mapMarkers,       \* map: the markers attached to it
  fetchCount,       \* number of fetchRoutes calls so far; call n owns controller n
  aborted,          \* the controllers whose signal is aborted
  res,              \* the fetchRoutes calls suspended at an await
  pending,          \* marker creations started by switchActiveRoute, not settled
  switchCount,      \* number of switchActiveRoute calls so far
  requests,         \* the directions requests sent by the latest call that sent any
  current,          \* history: the latest fetchRoutes call and the call it superseded
  writer,           \* history: the call that last wrote activeRouteId / routeData,
                    \*   and whether every directions request of that call failed
  atIssue,          \* history: the session as it was when `requests` were sent
  call,             \* a function called on its own: its name, arguments and position
  returned,         \* what that call returned or threw
  clickHandlers     \* map: per route id, the destinations of the click listeners
                    \*   registered on that route's layers, in registration order

vars == << routeData, isLoading, error, activeRouteId, abortRef, activeRouteIds,
           endpointMarkers, routeDataRef, mapRef, mapStyle, mapMarkers, fetchCount,
           aborted, res, pending, switchCount, requests, current, writer, atIssue,
           call, returned, clickHandlers >>

\* No function is being called on its own.
NoCall == [fn |-> "none", pc |-> "idle"]

\* The hook after construction: its state and refs, and an untouched map.
Mounted ==
  /\ routeData = <<>>
  /\ isLoading = FALSE
  /\ error = NoError
  /\ activeRouteId = NULL
  /\ abortRef = 0
  /\ activeRouteIds = <<>>
  /\ endpointMarkers = <<>>
  /\ routeDataRef = <<>>
  /\ mapRef = FALSE
  /\ mapStyle = [sources |-> {}, layers |-> <<>>]
  /\ mapMarkers = {}
  /\ fetchCount = 0
  /\ aborted = {}
  /\ res = {}
  /\ pending = {}
  /\ switchCount = 0
  /\ requests = <<>>
  /\ current = [gen |-> 0, location |-> NULL, superseded |-> 0, supersededLocation |-> NULL]
  /\ writer = [activeRouteId |-> 0, routeData |-> 0, outage |-> FALSE]
  /\ atIssue = [gen |-> 0, live |-> {}, sources |-> {}, markers |-> {}]
  /\ clickHandlers = [routeId \in SwitchIds |-> <<>>]

Init ==
  /\ Mounted
  /\ call = NoCall
  /\ returned = <<>>

\* History: a marker remembers the call that created it, and whether a
\* clearRoutes or a fetchRoutes began while its creation was pending.
CreatedBy(op, n, superseded) == [op |-> op, n |-> n, superseded |-> superseded]

\* History: every pending creation of switchActiveRoute is now superseded.
Supersede(creations) == {[p EXCEPT !.superseded = TRUE] : p \in creations}

\* Variant: the previous controller is replaced without being aborted.
AbortCurrent_Skipped == aborted

\* abortRef.current?.abort()
AbortCurrent == IF abortRef # 0 THEN aborted \cup {abortRef} ELSE aborted

\* The location a caller of switchActiveRoute passes: the page's selected
\* location, which is the location of the latest fetchRoutes call.
KnownLocations == IF fetchCount = 0 THEN {} ELSE {current.location}

\* The answers the gateway can give to the requests of one resolution.
RECURSIVE AnswerSeqs(_, _, _)
AnswerSeqs(combos, origin, n) ==
  IF n = 0 THEN {<<>>}
  ELSE {Append(a, x) : a \in AnswerSeqs(combos, origin, n - 1),
                       x \in IF UsesIndoor(combos[n], origin)
                             THEN {FailedDirections}
                             ELSE fetchDirectionsRoute(combos[n].exit.coordinates, origin)}

\* The requests one resolution sends, in combo order.
RECURSIVE IssuedRequests(_, _, _, _)
IssuedRequests(combos, origin, n, gen) ==
  IF n = 0 THEN <<>>
  ELSE IssuedRequests(combos, origin, n - 1, gen) \o
       (IF UsesIndoor(combos[n], origin) THEN <<>>
        ELSE << [gen |-> gen, start |-> combos[n].exit.coordinates, end |-> origin] >>)

\* History: the resolution sent at least one directions request and every
\* request it sent came back as a failed result.
Outage(location, answers) ==
  LET combos == allExitCombos(resolveStations(location))
      sent == {i \in 1..Len(combos) : ~UsesIndoor(combos[i], location)}
  IN sent # {} /\ \A i \in sent : ~answers[i].success

\* What a resolution can compute for a destination: the walkable route list,
\* for every combination of answers of the gateway.
Resolutions ==
  [location \in Locations \cup ClickLocations |->
     {[walkableRoutes |-> ResolveRoutes(location, answers),
       outage |-> Outage(location, answers)] :
        answers \in AnswerSeqs(allExitCombos(resolveStations(location)), location,
                               Len(allExitCombos(resolveStations(location))))}]

\* page: handleMapLoad
handleMapLoad ==
  /\ ~mapRef
  /\ mapRef' = TRUE
  /\ UNCHANGED << call, returned, clickHandlers, routeData, isLoading, error, activeRouteId, abortRef, activeRouteIds,
                  endpointMarkers, routeDataRef, mapStyle, mapMarkers, fetchCount,
                  aborted, res, pending, switchCount, requests, current, writer, atIssue >>

\* clearRoutes(map), map = mapRef.current
clearRoutes ==
  /\ aborted' = AbortCurrent
  /\ abortRef' = 0
  /\ mapStyle' = IF mapRef THEN clearRouteLayers(mapStyle, activeRouteIds) ELSE mapStyle
  /\ mapMarkers' = clearMarkers(mapMarkers, endpointMarkers)
  /\ endpointMarkers' = <<>>
  /\ activeRouteIds' = <<>>
  /\ routeDataRef' = <<>>
  /\ routeData' = <<>>
  /\ activeRouteId' = NULL
  /\ error' = NoError
  /\ writer' = [activeRouteId |-> 0, routeData |-> 0, outage |-> FALSE]
  /\ pending' = Supersede(pending)
  /\ UNCHANGED << call, returned, clickHandlers, isLoading, mapRef, fetchCount, res, switchCount, requests,
                  current, atIssue >>

\* The route switchActiveRoute finds in routeDataRef, as a sequence of 0 or 1.
FindRoute(routeId) == SelectSeq(routeDataRef, LAMBDA r : r.routeId = routeId)

\* Variant: switching re-publishes the list with the chosen route first.
switchActiveRoute_Reorder(routeId, locationCoordinates) ==
  /\ fetchCount + switchCount < MaxCalls
  /\ switchCount' = switchCount + 1
  /\ IF ~mapRef
     THEN UNCHANGED << mapStyle, mapMarkers, endpointMarkers, pending, activeRouteId,
                       writer, routeData >>
     ELSE /\ mapStyle' = setActiveRoute(mapStyle, routeId, activeRouteIds)
          /\ mapMarkers' = clearMarkers(mapMarkers, endpointMarkers)
          /\ endpointMarkers' = <<>>
          /\ pending' = IF FindRoute(routeId) # <<>>
                        THEN pending \cup {[call |-> switchCount + 1,
                                            superseded |-> FALSE,
                                            start |-> locationCoordinates,
                                            end |-> FindRoute(routeId)[1].coordinates]}
                        ELSE pending
          /\ activeRouteId' = routeId
          /\ writer' = [writer EXCEPT !.activeRouteId = 0]
          /\ routeData' = SelectSeq(routeData, LAMBDA r : r.routeId = routeId) \o
                          SelectSeq(routeData, LAMBDA r : r.routeId # routeId)
  /\ UNCHANGED << call, returned, clickHandlers, isLoading, error, abortRef, activeRouteIds, routeDataRef,
                  mapRef, fetchCount, aborted, res, requests, current, atIssue >>

\* switchActiveRoute(routeId, map, locationCoordinates), map = mapRef.current:
\* the synchronous part, up to the pending marker creation.
switchActiveRoute(routeId, locationCoordinates) ==
  /\ fetchCount + switchCount < MaxCalls
  /\ switchCount' = switchCount + 1
  /\ IF ~mapRef
     THEN UNCHANGED << mapStyle, mapMarkers, endpointMarkers, pending, activeRouteId, writer >>
     ELSE /\ mapStyle' = setActiveRoute(mapStyle, routeId, activeRouteIds)
          /\ mapMarkers' = clearMarkers(mapMarkers, endpointMarkers)
          /\ endpointMarkers' = <<>>
          /\ pending' = IF FindRoute(routeId) # <<>>
                        THEN pending \cup {[call |-> switchCount + 1,
                                            superseded |-> FALSE,
                                            start |-> locationCoordinates,
                                            end |-> FindRoute(routeId)[1].coordinates]}
                        ELSE pending
          /\ activeRouteId' = routeId
          /\ writer' = [writer EXCEPT !.activeRouteId = 0]
  /\ UNCHANGED << call, returned, clickHandlers, routeData, isLoading, error, abortRef, activeRouteIds, routeDataRef,
                  mapRef, fetchCount, aborted, res, requests, current, atIssue >>

\* The .then callback of switchActiveRoute: the markers have been created.
switchActiveRoute_then(p) ==
  /\ p \in pending
  /\ pending' = pending \ {p}
  /\ LET markers == addRouteEndpointMarkers(
                      CreatedBy("switchActiveRoute", p.call, p.superseded), p.start, p.end)
         onMap == mapMarkers \cup MarkerSet(markers)
     IN IF Len(activeRouteIds) > 0
        THEN /\ endpointMarkers' = markers
             /\ mapMarkers' = onMap
        ELSE /\ mapMarkers' = clearMarkers(onMap, markers)
             /\ UNCHANGED endpointMarkers
  /\ UNCHANGED << call, returned, clickHandlers, routeData, isLoading, error, activeRouteId, abortRef, activeRouteIds,
                  routeDataRef, mapRef, mapStyle, fetchCount, aborted, res, switchCount,
                  requests, current, writer, atIssue >>

\* The marker creation of switchActiveRoute rejects (the dynamic import of
\* the map library fails): there is no rejection handler, nothing is stored.
switchActiveRoute_rejected(p) ==
  /\ p \in pending
  /\ pending' = pending \ {p}
  /\ UNCHANGED << call, returned, clickHandlers, routeData, isLoading, error, activeRouteId, abortRef, activeRouteIds,
                  endpointMarkers, routeDataRef, mapRef, mapStyle, mapMarkers, fetchCount,
                  aborted, res, switchCount, requests, current, writer, atIssue >>

\* The frame of a fetchRoutes call suspended at an await.
Suspended(gen, location, pc, walk) ==
  [gen |-> gen, location |-> location, map |-> mapRef, pc |-> pc, walkableRoutes |-> walk,
   outage |-> FALSE]

\* fetchRoutes(location, map), map = mapRef.current: the synchronous part, up
\* to the await of Promise.allSettled.  Every fetchDirectionsRoute call is
\* made, and its request sent, in this part.
fetchRoutes(location) ==
  /\ fetchCount + switchCount < MaxCalls
  /\ LET g == fetchCount + 1
         inFlight == {r \in res : r.gen = abortRef}
         style1 == IF mapRef THEN clearRouteLayers(mapStyle, activeRouteIds) ELSE mapStyle
         markers1 == clearMarkers(mapMarkers, endpointMarkers)
         stations == resolveStations(location)
         combos == allExitCombos(stations)
     IN /\ fetchCount' = g
        /\ aborted' = AbortCurrent
        /\ abortRef' = g
        /\ current' = [gen |-> g, location |-> location,
                       superseded |-> IF inFlight # {} THEN abortRef ELSE 0,
                       supersededLocation |->
                         IF inFlight # {} THEN (CHOOSE r \in inFlight : TRUE).location
                         ELSE NULL]
        /\ mapStyle' = style1
        /\ mapMarkers' = markers1
        /\ endpointMarkers' = <<>>
        /\ activeRouteIds' = <<>>
        /\ IF Len(stations) = 0
           THEN /\ routeData' = <<>>
                /\ isLoading' = FALSE
                /\ writer' = [writer EXCEPT !.routeData = g, !.outage = FALSE]
                /\ UNCHANGED << error, res, requests, atIssue >>
           ELSE /\ isLoading' = TRUE
                /\ error' = NoError
                /\ res' = res \cup {Suspended(g, location, "awaitDirections", <<>>)}
                /\ requests' = IssuedRequests(combos, location, Len(combos), g)
                /\ atIssue' = [gen |-> g,
                               live |-> (1..fetchCount) \ AbortCurrent,
                               sources |-> style1.sources,
                               markers |-> markers1]
                /\ UNCHANGED << routeData, writer >>
  /\ pending' = Supersede(pending)
  /\ UNCHANGED << call, returned, clickHandlers, activeRouteId, routeDataRef, mapRef, switchCount >>

\* fetchRoutes after Promise.allSettled: from `if (signal.aborted) return`
\* to the await of addRouteEndpointMarkers, or to the end when nothing is awaited.
fetchRoutes_settled(r) ==
  /\ r \in res
  /\ r.pc = "awaitDirections"
  /\ IF r.gen \in aborted
     THEN /\ res' = res \ {r}
          /\ UNCHANGED << routeData, isLoading, activeRouteId, activeRouteIds,
                          routeDataRef, mapStyle, writer >>
     ELSE \E resolution \in Resolutions[r.location] :
            LET walk == resolution.walkableRoutes
                drawn == DrawRoutes(mapStyle, walk, Len(walk), r.map, r.gen)
            IN /\ mapStyle' = drawn.style
               /\ activeRouteIds' = drawn.newRouteIds
               /\ IF Len(walk) > 0 /\ r.map
                  THEN /\ activeRouteId' = walk[1].routeId
                       /\ writer' = [writer EXCEPT !.activeRouteId = r.gen]
                       /\ res' = (res \ {r}) \cup
                                 {[r EXCEPT !.pc = "awaitMarkers", !.walkableRoutes = walk,
                                            !.outage = resolution.outage]}
                       /\ UNCHANGED << routeData, routeDataRef, isLoading >>
                  ELSE /\ routeDataRef' = walk
                       /\ routeData' = walk
                       /\ isLoading' = FALSE
                       /\ writer' = [writer EXCEPT !.routeData = r.gen,
                                                   !.outage = resolution.outage]
                       /\ res' = res \ {r}
                       /\ UNCHANGED activeRouteId
  /\ UNCHANGED << call, returned, clickHandlers, error, abortRef, endpointMarkers, mapRef, mapMarkers, fetchCount,
                  aborted, pending, switchCount, requests, current, atIssue >>

\* fetchRoutes after `await addRouteEndpointMarkers`: the markers are on the
\* map; the rest of the try block and the finally block.
fetchRoutes_markers(r) ==
  /\ r \in res
  /\ r.pc = "awaitMarkers"
  /\ LET walk == r.walkableRoutes
         markers == addRouteEndpointMarkers(
                      CreatedBy("fetchRoutes", r.gen, r.gen \in aborted),
                      r.location, walk[1].coordinates)
         onMap == mapMarkers \cup MarkerSet(markers)
     IN IF r.gen \in aborted
        THEN /\ mapMarkers' = clearMarkers(onMap, markers)
             /\ UNCHANGED << endpointMarkers, routeDataRef, routeData, isLoading, writer,
                             clickHandlers >>
        ELSE /\ mapMarkers' = onMap
             /\ endpointMarkers' = markers
             /\ clickHandlers' = RegisterClickHandlers(clickHandlers, walk, mapStyle,
                                                       r.location)
             /\ routeDataRef' = walk
             /\ routeData' = walk
             /\ isLoading' = FALSE
             /\ writer' = [writer EXCEPT !.routeData = r.gen, !.outage = r.outage]
  /\ res' = res \ {r}
  /\ UNCHANGED << call, returned, error, activeRouteId, abortRef, activeRouteIds, mapRef, mapStyle,
                  fetchCount, aborted, pending, switchCount, requests, current, atIssue >>

\* fetchRoutes when `await addRouteEndpointMarkers` rejects (the dynamic
\* import of the map library fails): the catch block and the finally block.
fetchRoutes_catch(r) ==
  /\ r \in res
  /\ r.pc = "awaitMarkers"
  /\ error' = FailedToLoad
  /\ isLoading' = IF r.gen \in aborted THEN isLoading ELSE FALSE
  /\ res' = res \ {r}
  /\ UNCHANGED << call, returned, clickHandlers, routeData, activeRouteId, abortRef, activeRouteIds, endpointMarkers,
                  routeDataRef, mapRef, mapStyle, mapMarkers, fetchCount, aborted,
                  pending, switchCount, requests, current, writer, atIssue >>

Next ==
  \/ handleMapLoad
  \/ clearRoutes
  \/ \E location \in Locations : fetchRoutes(location)
  \/ \E routeId \in SwitchIds, location \in KnownLocations :
       switchActiveRoute(routeId, location)
  \/ \E p \in pending : switchActiveRoute_then(p)
  \/ \E p \in pending : switchActiveRoute_rejected(p)
  \/ \E r \in res : fetchRoutes_settled(r)
  \/ \E r \in res : fetchRoutes_markers(r)
  \/ \E r \in res : fetchRoutes_catch(r)

Spec == Init /\ [][Next]_vars

\* ===================================================================
\* Functions called on their own
\* ===================================================================
\* ------------------------------------------------------------ clicks
\* A click on a layer of route routeId (its casing, say): the map calls
\* every click listener registered for that layer id, in registration
\* order, and each calls switchActiveRoute(route.routeId, map, origin) with
\* the origin of the resolution that registered it.  The calls run back to
\* back: the first clears the tracked markers, each starts a marker creation.
click(routeId) ==
  LET handlers == clickHandlers[routeId]
  IN /\ mapRef
     /\ getLayer(mapStyle, routeId)
     /\ Len(handlers) > 0
     /\ fetchCount + switchCount + Len(handlers) <= MaxCalls
     /\ switchCount' = switchCount + Len(handlers)
     /\ mapStyle' = setActiveRoute(mapStyle, routeId, activeRouteIds)
     /\ mapMarkers' = clearMarkers(mapMarkers, endpointMarkers)
     /\ endpointMarkers' = <<>>
     /\ pending' = IF FindRoute(routeId) # <<>>
                   THEN pending \cup {[call |-> switchCount + j,
                                       superseded |-> FALSE,
                                       start |-> handlers[j],
                                       end |-> FindRoute(routeId)[1].coordinates] :
                                        j \in 1..Len(handlers)}
                   ELSE pending
     /\ activeRouteId' = routeId
     /\ writer' = [writer EXCEPT !.activeRouteId = 0]
     /\ UNCHANGED << call, returned, clickHandlers, routeData, isLoading, error, abortRef,
                     activeRouteIds, routeDataRef, mapRef, fetchCount, aborted, res,
                     requests, current, atIssue >>

\* The session when the user selects destinations and clicks route lines.
ClickNext ==
  \/ handleMapLoad
  \/ \E location \in ClickLocations : fetchRoutes(location)
  \/ \E r \in res : fetchRoutes_settled(r)
  \/ \E r \in res : fetchRoutes_markers(r)
  \/ \E routeId \in SwitchIds : click(routeId)
  \/ \E p \in pending : switchActiveRoute_then(p)

ClickSpec == Init /\ [][ClickNext]_vars

sessionVars == << routeData, isLoading, error, activeRouteId, abortRef, activeRouteIds,
                  endpointMarkers, routeDataRef, mapRef, mapStyle, mapMarkers,
                  fetchCount, aborted, res, pending, switchCount, requests, current,
                  writer, atIssue, clickHandlers >>

\* Coordinates of every exit of the directory.
ExitCoordinates ==
  UNION {{stationCoordinates[i].exits[j].coordinates :
            j \in 1..Len(stationCoordinates[i].exits)} : i \in 1..Len(stationCoordinates)}

\* Destinations the resolver is run for on its own.
\*   100 : both stations, the NU Sentral exit has an indoor link
\*   200 : both stations, the NU Sentral exit has the link and its reverse
\*   900 : both stations, Pasar Seni first, no indoor link
ResolverLocations == {100, 200, 900}

\* Durations (seconds) of the successful candidates given to the resolver:
\* below, at and above the adjusted score (210) of the 300 s indoor link.
CandidateDurations == {0, 200, 210, 250, 480, 1000}

\* The settled answers of the requests of one resolution, for every combo
\* that is not served from the indoor catalog.
RECURSIVE SettledAnswers(_, _, _)
SettledAnswers(combos, origin, n) ==
  IF n = 0 THEN {<<>>}
  ELSE {Append(a, x) :
          a \in SettledAnswers(combos, origin, n - 1),
          x \in IF UsesIndoor(combos[n], origin)
                THEN {FailedDirections}
                ELSE {FailedDirections} \cup
                     {[success |-> TRUE,
                       distance |-> haversineMeters(combos[n].exit.coordinates, origin),
                       duration |-> t,
                       geometry |-> <<combos[n].exit.coordinates, origin>>] :
                        t \in CandidateDurations}}

\* Points and radii getStationsWithinRadius is called with on its own: next
\* to an exit, between the stations (650 is 350 m from both), far away.
QueryPoints == {100, 300, 650, 900, 2900, 6000}
QueryRadii == {100, 350, 2000}

\* Names looked up: a directory key, keys in another case, parts of keys, a
\* name that contains a key, names of no station, the empty string.
QueryNames ==
  {<<"P", "e", "r", "s", "i", "a", "r", "a", "n", " ", "K", "L", "C", "C">>,
   <<"p", "e", "r", "s", "i", "a", "r", "a", "n", " ", "k", "l", "c", "c">>,
   <<"k", "l", "c", "c">>,
   <<"K", "L", "C">>,
   <<"S", "e", "n", "t", "r", "a", "l">>,
   <<"K", "L", " ", "S", "e", "n", "t", "r", "a", "l", " ", "L", "R", "T">>,
   <<"s", "e", "n", "i">>,
   <<"M", "o", "n", "o", "r", "a", "i", "l">>,
   <<"c", "o", "n", "s", "t", "r", "u", "c", "t", "o", "r">>,
   <<>>}

\* Published lists getStationRouteInfo is asked about: those of a resolution
\* for a destination between KLCC (100 m) and Persiaran KLCC (400 m), each
\* exit's request failing or answering with one of two durations.
RouteInfoLocation == 50100
RouteInfoDurations == {120, 480}
RouteLists ==
  LET combos == allExitCombos(resolveStations(RouteInfoLocation))
      answer(i) == {FailedDirections} \cup
                   {[success |-> TRUE,
                     distance |-> haversineMeters(combos[i].exit.coordinates, RouteInfoLocation),
                     duration |-> t,
                     geometry |-> <<combos[i].exit.coordinates, RouteInfoLocation>>] :
                      t \in RouteInfoDurations}
  IN {ResolveRoutes(RouteInfoLocation, <<a, b>>) : a \in answer(1), b \in answer(2)}

\* Catalogs findRelevantIndoorConnections is run over on its own: the one
\* above, and one with a second entry from the same start that is one-way
\* (isBidirectional: false, as the IndoorConnection interface allows).
IndoorCatalogs ==
  {indoorConnections,
   indoorConnections \o
     << [id |-> <<"kl-sentral-muzium-negara-via-nu">>,
         name |-> <<"KL Sentral -> Muzium Negara MRT (via NU Sentral)">>,
         start |-> [name |-> "KL Sentral Level 2", coordinates |-> 300],
         end |-> [name |-> "Muzium Negara MRT Entrance C", coordinates |-> 0],
         distance |-> 300,
         duration |-> 420,
         features |-> {"air-conditioned", "covered", "escalator"},
         isBidirectional |-> FALSE] >>}
DetourPoints == {0, 100, 150, 300}
DetourLimits == {100, 150, 200}

Calls ==
  {[fn |-> "findRelevantIndoorConnections", pc |-> "called", catalog |-> catalog,
    from |-> from, to |-> to, maxDetourMeters |-> d] :
     catalog \in IndoorCatalogs, from \in DetourPoints, to \in DetourPoints,
     d \in DetourLimits}
  \cup
  {[fn |-> "getStationRouteInfo", pc |-> "called", routeData |-> routes,
    stationName |-> name] : routes \in RouteLists, name \in QueryNames}
  \cup
  {[fn |-> "getStationData", pc |-> "called", stationName |-> name] : name \in QueryNames}
  \cup
  {[fn |-> "getStationsWithinRadius", pc |-> "called", coordinates |-> p,
    radiusMeters |-> r] : p \in QueryPoints, r \in QueryRadii}
  \cup
  UNION {{[fn |-> "fetchDirectionsRoute", pc |-> "called", start |-> start, end |-> end,
           token |-> token, network |-> network] :
            token \in AccessTokens, network \in DirectionsNetworks(start, end)} :
           start \in ExitCoordinates, end \in Locations}
  \cup
  UNION {{[fn |-> "fetchMatrixDistances", pc |-> "called", origin |-> origin,
           destinations |-> [i \in 1..Len(resolveStations(origin)) |->
                               resolveStations(origin)[i].exits[1].coordinates],
           token |-> token, network |-> network] :
            token \in AccessTokens,
            network \in MatrixNetworks(origin,
                          [i \in 1..Len(resolveStations(origin)) |->
                             resolveStations(origin)[i].exits[1].coordinates])} :
           origin \in Locations}
  \cup
  UNION {{[fn |-> "resolve", pc |-> "called", location |-> location, answers |-> answers] :
            answers \in SettledAnswers(allExitCombos(resolveStations(location)), location,
                                       Len(allExitCombos(resolveStations(location))))} :
           location \in ResolverLocations}

FunctionInit ==
  /\ Mounted
  /\ call \in Calls
  /\ returned = <<>>

call_fetchDirectionsRoute ==
  /\ call.fn = "fetchDirectionsRoute"
  /\ call.pc = "called"
  /\ returned' = DirectionsCall(call.start, call.end, call.token, call.network)
  /\ call' = [call EXCEPT !.pc = "returned"]
  /\ UNCHANGED sessionVars

call_fetchMatrixDistances ==
  /\ call.fn = "fetchMatrixDistances"
  /\ call.pc = "called"
  /\ returned' = fetchMatrixDistances(call.origin, call.destinations, call.token, call.network)
  /\ call' = [call EXCEPT !.pc = "returned"]
  /\ UNCHANGED sessionVars

\* fetchRoutes from the requests it sends to walkableRoutes, nothing drawn.
call_resolve ==
  /\ call.fn = "resolve"
  /\ call.pc = "called"
  /\ LET combos == allExitCombos(resolveStations(call.location))
         results == directionsResults(combos, call.location, call.answers)
         best == stationBestExits(combos, results, Len(combos))
         routes == BuildRoutes(best)
     IN returned' = Returned([requests |-> IssuedRequests(combos, call.location,
                                                          Len(combos), 0),
                              directionsResults |-> results,
                              stationBestExits |-> best,
                              routes |-> routes,
                              walkableRoutes |-> walkableRoutes(routes)], FALSE)
  /\ call' = [call EXCEPT !.pc = "returned"]
  /\ UNCHANGED sessionVars

call_getStationsWithinRadius ==
  /\ call.fn = "getStationsWithinRadius"
  /\ call.pc = "called"
  /\ returned' = Returned(getStationsWithinRadius(call.coordinates, call.radiusMeters), FALSE)
  /\ call' = [call EXCEPT !.pc = "returned"]
  /\ UNCHANGED sessionVars

call_getStationData ==
  /\ call.fn = "getStationData"
  /\ call.pc = "called"
  /\ returned' = Returned(getStationData(call.stationName), FALSE)
  /\ call' = [call EXCEPT !.pc = "returned"]
  /\ UNCHANGED sessionVars

call_getStationRouteInfo ==
  /\ call.fn = "getStationRouteInfo"
  /\ call.pc = "called"
  /\ returned' = Returned(getStationRouteInfo(call.routeData, call.stationName), FALSE)
  /\ call' = [call EXCEPT !.pc = "returned"]
  /\ UNCHANGED sessionVars

\* The value returned, with the catalog as the call leaves it (the reverse
\* edge is a spread copy, the catalog's entries are not written).
call_findRelevantIndoorConnections ==
  /\ call.fn = "findRelevantIndoorConnections"
  /\ call.pc = "called"
  /\ returned' = Returned([relevant |-> RelevantFrom(call.catalog, 1, call.from, call.to,
                                                     call.maxDetourMeters),
                           indoorConnections |-> call.catalog], FALSE)
  /\ call' = [call EXCEPT !.pc = "returned"]
  /\ UNCHANGED sessionVars

FunctionNext ==
  \/ call_findRelevantIndoorConnections
  \/ call_getStationRouteInfo
  \/ call_getStationData
  \/ call_getStationsWithinRadius
  \/ call_fetchDirectionsRoute
  \/ call_fetchMatrixDistances
  \/ call_resolve

FunctionSpec == FunctionInit /\ [][FunctionNext]_vars

\* ===================================================================
\* Properties
\* ===================================================================
\* Nothing is suspended: every continuation has run.
Quiescent == res = {} /\ pending = {}

AllMarkers == mapMarkers \cup MarkerSet(endpointMarkers)

\* C1: when a fetchRoutes for one destination is cancelled mid-flight by a
\* fetchRoutes for a different destination, then once the continuations of
\* both have run nothing the first one derived remains in the session: not
\* the route list, not the active route id, no route layer, no marker.
C1_OnlySecondDestination ==
  (/\ current.superseded # 0
   /\ current.supersededLocation # current.location
   /\ \A r \in res : r.gen \notin {current.gen, current.superseded})
  => /\ writer.routeData # current.superseded
     /\ (activeRouteId # NULL => writer.activeRouteId # current.superseded)
     /\ \A src \in mapStyle.sources : src.gen # current.superseded
     /\ \A m \in AllMarkers :
          ~(m.by.op = "fetchRoutes" /\ m.by.n = current.superseded)

\* C2: a continuation of a resolution whose token is aborted changes none of
\* route list, active route id, drawn-route-id list, endpoint-marker list,
\* loading flag and error.
C2_CancelledIsSilent ==
  [][\A r \in res :
       (r.gen \in aborted /\ r \notin res')
       => UNCHANGED << routeData, activeRouteId, activeRouteIds, endpointMarkers,
                       isLoading, error >>]_vars

\* C3: markers whose creation was pending when a clearRoutes or a fetchRoutes
\* began are never stored in the endpoint-marker list and never left on the map.
C3_NoSupersededMarkers == \A m \in AllMarkers : ~m.by.superseded

\* C4: at most one controller is not aborted, it is the one abortRef holds,
\* and after clearRoutes (abortRef null) there is none.
C4_OneLiveToken ==
  /\ Cardinality((1..fetchCount) \ aborted) <= 1
  /\ (1..fetchCount) \ aborted \subseteq {abortRef}

\* C4 witness: a second fetchRoutes has replaced the controller of a
\* resolution that is still suspended.
C4_Witness ==
  /\ fetchCount >= 2
  /\ abortRef = fetchCount
  /\ \E r \in res : r.gen < fetchCount /\ r.gen \in aborted

\* C5: when a fetchRoutes sends its directions requests, every earlier token
\* is aborted and no route layer and no endpoint marker of an earlier
\* resolution is on the map; and the route list is only ever written by the
\* resolution that holds the current token.
C5_CleanBeforeRequests ==
  /\ [](atIssue.gen # 0 =>
          /\ atIssue.live = {}
          /\ atIssue.sources = {}
          /\ atIssue.markers = {})
  /\ [][writer.routeData' # writer.routeData
          => writer.routeData' \in {0, abortRef'}]_vars

\* C6: clearRoutes leaves no current token, every token aborted, an empty
\* route list, a null active route id and a null error; and once the pending
\* continuations have run, a cleared session with a map has no route layer
\* and no endpoint marker on the map and still no error.
C6_ClearLeavesNothing ==
  /\ [][clearRoutes =>
          /\ abortRef' = 0
          /\ (1..fetchCount) \subseteq aborted'
          /\ routeData' = <<>>
          /\ activeRouteId' = NULL
          /\ error' = NoError]_vars
  /\ []((abortRef = 0 /\ mapRef /\ Quiescent) =>
          /\ routeData = <<>>
          /\ error = NoError
          /\ mapStyle.sources = {}
          /\ mapStyle.layers = <<>>
          /\ mapMarkers = {})

\* The layers of a stack, without their order and their styling.
LayerSet(layers) == {<<layers[k].id, layers[k].casing>> : k \in 1..Len(layers)}

\* C7: a switchActiveRoute call and its marker continuation send no request
\* and leave the route list, every route in it, the sources and the set of
\* layers as they are; only the active route id, the styling and order of
\* the layers and the endpoint markers change.
C7_SwitchKeepsRoutes ==
  [][(switchCount' # switchCount \/ (pending' # pending /\ res' = res /\ fetchCount' = fetchCount
                                     /\ abortRef' = abortRef))
     => /\ UNCHANGED << routeData, routeDataRef, requests, res, aborted, abortRef,
                        isLoading, error, activeRouteIds >>
        /\ mapStyle'.sources = mapStyle.sources
        /\ LayerSet(mapStyle'.layers) = LayerSet(mapStyle.layers)
        /\ Len(mapStyle'.layers) = Len(mapStyle.layers)]_vars

\* C7 witness: the second route of a two-route list has been made active by
\* switchActiveRoute and its markers are tracked.
C7_Witness ==
  /\ Len(routeData) = 2
  /\ activeRouteId = routeData[2].routeId
  /\ endpointMarkers # <<>>
  /\ endpointMarkers[1].by.op = "switchActiveRoute"
  /\ mapStyle.layers[Len(mapStyle.layers)].id = activeRouteId

\* C8: the published route list is sorted non-decreasingly by raw duration.
C8_SortedByDuration ==
  \A k \in 1..(Len(routeData) - 1) : routeData[k].duration <= routeData[k + 1].duration

\* C8 witness: a published list in which the sort moved a route forward, and
\* whose second route is indoor with a lower adjusted score than the first.
C8_Witness ==
  /\ Len(routeData) = 2
  /\ routeData[1].routeId > routeData[2].routeId
  /\ routeData[1].duration < routeData[2].duration
  /\ routeData[2].hasIndoorRoute
  /\ ~routeData[1].hasIndoorRoute
  /\ routeData[2].duration * 7 < routeData[1].duration * 10

\* C9: every published route has a duration above 0 and at most 900 seconds.
C9_DurationInRange ==
  \A k \in 1..Len(routeData) :
     routeData[k].duration > 0 /\ routeData[k].duration <= MAX_WALK_SECONDS

\* C9 witness: a resolution for the destination next to KL Sentral published
\* a list without KL Sentral, the station having been dropped by the filter.
C9_Witness ==
  /\ writer.routeData = current.gen
  /\ current.location = 100
  /\ Len(routeData) = 1
  /\ routeData[1].stationName = "Pasar Seni"

\* C10: no two published routes have the same station name.
C10_OneRoutePerStation ==
  \A j, k \in 1..Len(routeData) :
     routeData[j].stationName = routeData[k].stationName => j = k

\* C10 witness: a published list holding the route of KL Sentral, a station
\* with two exits that both yield a candidate, next to another station.
C10_Witness ==
  /\ Len(routeData) = 2
  /\ \E k \in 1..2 : routeData[k].stationName = "KL Sentral"
                     /\ Len(stationCoordinates[1].exits) = 2

\* C13: in every published route list the route at position k (0-based) has
\* the identifier walking-route-k.
C13_IdsFollowPositions ==
  \A k \in 1..Len(routeData) : routeData[k].routeId = k - 1

\* C14: when a resolution publishes a non-empty route list, the active route
\* id is the id of the first route of that list, with or without a map.
C14_FirstRouteIsActive ==
  [][(/\ writer'.routeData # writer.routeData
      /\ writer'.routeData # 0
      /\ routeData' # <<>>)
     => activeRouteId' = routeData'[1].routeId]_vars

\* C15: a fetchRoutes for a destination with no station within the
\* pre-filter radius sends no request and ends with an empty route list and
\* a null error, whatever the state it was called in.
C15_NoStationsNoError ==
  [][(fetchCount' # fetchCount /\ Len(resolveStations(current'.location)) = 0)
     => /\ requests' = requests
        /\ routeData' = <<>>
        /\ error' = NoError]_vars

\* C17: when a resolution ends by setting the error, the published route
\* list is empty afterwards.
C17_ErrorReplacesRoutes ==
  [][(error = NoError /\ error' # NoError) => routeData' = <<>>]_vars

\* C16: a resolution that is not cancelled and whose directions requests all
\* failed ends with the error set.
C16_OutageSetsError ==
  [][(writer'.routeData # writer.routeData /\ writer'.outage) => error' # NoError]_vars

\* C11: for a station one of whose exits has an indoor candidate with an
\* adjusted score (duration x 0.7) below the duration of every successful
\* outdoor candidate of the station, the resolved route of the station is
\* indoor, reports the raw duration of the indoor connection and carries
\* its feature tags.
C11_IndoorWins ==
  (call.fn = "resolve" /\ call.pc = "returned") =>
    LET combos == allExitCombos(resolveStations(call.location))
        results == returned.value.directionsResults
        routes == returned.value.routes
    IN \A n \in {combos[i].station.name : i \in 1..Len(combos)} :
         LET ok == {i \in 1..Len(combos) :
                      combos[i].station.name = n /\ results[i].value.success}
             indoor == {i \in ok : results[i].value.isIndoor}
             winning == {i \in indoor :
                           \A j \in ok \ indoor :
                              results[i].value.duration * 7 < results[j].value.duration * 10}
         IN winning # {} =>
              \E k \in 1..Len(routes), i \in winning :
                 /\ routes[k].stationName = n
                 /\ routes[k].hasIndoorRoute
                 /\ routes[k].duration = results[i].value.duration
                 /\ routes[k].indoorFeatures = results[i].value.indoorFeatures
                 /\ \A m \in 1..Len(routes) : routes[m].stationName = n => m = k

\* C11 witness: the 300 s indoor link of KL Sentral against an outdoor
\* candidate of 480 s resolved to an indoor route of 300 s.
C11_Witness ==
  /\ call.fn = "resolve"
  /\ call.pc = "returned"
  /\ call.location = 100
  /\ call.answers[1].success
  /\ call.answers[1].duration = 480
  /\ \E k \in 1..Len(returned.value.walkableRoutes) :
        /\ returned.value.walkableRoutes[k].stationName = "KL Sentral"
        /\ returned.value.walkableRoutes[k].hasIndoorRoute
        /\ returned.value.walkableRoutes[k].duration = 300
        /\ returned.value.walkableRoutes[k].indoorFeatures = {"air-conditioned", "covered"}

\* C12: the exit selected for a station has a minimal score (duration x 0.7
\* if indoor, else duration) among the successful candidates of the station,
\* and every candidate enumerated before it has a strictly higher score; a
\* station with a successful candidate has a selected exit.
C12_LowestScoreFirstWins ==
  (call.fn = "resolve" /\ call.pc = "returned") =>
    LET combos == allExitCombos(resolveStations(call.location))
        results == returned.value.directionsResults
        best == returned.value.stationBestExits
        score(i) == IF results[i].value.isIndoor
                    THEN results[i].value.duration * 7
                    ELSE results[i].value.duration * 10
    IN \A n \in {combos[i].station.name : i \in 1..Len(combos)} :
         LET ok == {i \in 1..Len(combos) :
                      combos[i].station.name = n /\ results[i].value.success}
             first == {i \in ok : /\ \A j \in ok : score(i) <= score(j)
                                  /\ \A j \in ok : j < i => score(i) < score(j)}
             chosen == {k \in 1..Len(best) : best[k].station.name = n}
         IN /\ Cardinality(chosen) = (IF ok = {} THEN 0 ELSE 1)
            /\ \A k \in chosen : \E i \in first : /\ best[k].exit = combos[i].exit
                                                  /\ best[k].route = results[i].value

\* C12 witness: both exits of KL Sentral answered 250 s and the exit
\* enumerated first was selected.
C12_Witness ==
  /\ call.fn = "resolve"
  /\ call.pc = "returned"
  /\ call.location = 900
  /\ call.answers[2].success /\ call.answers[3].success
  /\ call.answers[2].duration = 250 /\ call.answers[3].duration = 250
  /\ \E k \in 1..Len(returned.value.stationBestExits) :
        /\ returned.value.stationBestExits[k].station.name = "KL Sentral"
        /\ returned.value.stationBestExits[k].exit.exitName = "Exit A - Street Level"

\* C18: with the access token missing a gateway call sends no network
\* request, and what it hands to its caller differs from what the same call
\* hands over when the token is set and the network is down.
C18_MissingTokenIsDistinct ==
  (call.fn \in {"fetchDirectionsRoute", "fetchMatrixDistances"}
   /\ call.pc = "returned" /\ call.token = NoToken) =>
    LET down == [fetch |-> "TypeError", ok |-> FALSE, json |-> "none", body |-> <<>>]
        outage == IF call.fn = "fetchDirectionsRoute"
                  THEN DirectionsCall(call.start, call.end, "pk.token", down)
                  ELSE fetchMatrixDistances(call.origin, call.destinations, "pk.token", down)
    IN /\ ~returned.fetched
       /\ ~(/\ returned.kind = outage.kind
            /\ returned.name = outage.name
            /\ returned.value = outage.value)

\* C19: a gateway call ends in one of three ways.  It throws AbortError
\* exactly when its request was cancelled (fetch or res.json rejected with
\* AbortError); it returns a successful result exactly when the response is
\* ok, parses, has code Ok and is not empty; in every other case (missing
\* token, network error, HTTP error, unparsable body, other code, empty
\* answer) it returns the failed result with zero/empty values.
C19_ThreeOutcomes ==
  (call.fn \in {"fetchDirectionsRoute", "fetchMatrixDistances"} /\ call.pc = "returned") =>
    LET net == call.network
        cancelled == /\ call.token # NoToken
                     /\ \/ net.fetch = "AbortError"
                        \/ (net.fetch = "response" /\ net.ok /\ net.json = "AbortError")
        answered == /\ call.token # NoToken
                    /\ net.fetch = "response" /\ net.ok /\ net.json = "parsed"
                    /\ net.body.code = "Ok"
                    /\ IF call.fn = "fetchDirectionsRoute"
                       THEN Len(net.body.routes) > 0
                       ELSE Len(net.body.distances) > 0
        failed == IF call.fn = "fetchDirectionsRoute"
                  THEN [success |-> FALSE, distance |-> 0, duration |-> 0, geometry |-> <<>>]
                  ELSE [success |-> FALSE, distances |-> <<>>, durations |-> <<>>]
    IN /\ cancelled => (returned.kind = "thrown" /\ returned.name = "AbortError")
       /\ answered => (returned.kind = "returned" /\ returned.value.success)
       /\ (~cancelled /\ ~answered) => (returned.kind = "returned" /\ returned.value = failed)

\* C19 witness: one call was cancelled while the body was read and threw
\* AbortError.
C19_Witness ==
  /\ call.fn = "fetchDirectionsRoute"
  /\ call.pc = "returned"
  /\ call.network.fetch = "response"
  /\ call.network.json = "AbortError"
  /\ returned.kind = "thrown"
  /\ returned.name = "AbortError"

C21_WithinRadiusSorted ==
  (call.fn = "getStationsWithinRadius" /\ call.pc = "returned") =>
    LET out == returned.value
        dir == stationCoordinates
        dist(i, j) == IF call.coordinates >= dir[i].exits[j].coordinates
                      THEN call.coordinates - dir[i].exits[j].coordinates
                      ELSE dir[i].exits[j].coordinates - call.coordinates
        near(i) == \E j \in 1..Len(dir[i].exits) : dist(i, j) <= call.radiusMeters
        closer(i, k) == \E j \in 1..Len(dir[i].exits) :
                           \A m \in 1..Len(dir[k].exits) : dist(i, j) < dist(k, m)
        index(st) == CHOOSE i \in 1..Len(dir) : dir[i] = st
    IN /\ \A k \in 1..Len(out) : \E i \in 1..Len(dir) : dir[i] = out[k] /\ near(i)
       /\ \A i \in 1..Len(dir) : near(i) => \E k \in 1..Len(out) : out[k] = dir[i]
       /\ \A j, k \in 1..Len(out) : out[j] = out[k] => j = k
       /\ \A j, k \in 1..Len(out) :
            j < k => /\ ~closer(index(out[k]), index(out[j]))
                     /\ (~closer(index(out[j]), index(out[k])) => index(out[j]) < index(out[k]))

\* C21 witness: a point 350 m from the nearest exit of both stations, which
\* is the second exit of KL Sentral; both are returned, in directory order.
C21_Witness ==
  /\ call.fn = "getStationsWithinRadius"
  /\ call.pc = "returned"
  /\ call.coordinates = 650
  /\ call.radiusMeters = 350
  /\ Len(returned.value) = 2
  /\ returned.value[1].name = "KL Sentral"
  /\ returned.value[2].name = "Pasar Seni"

\* C22: getStationData(name) returns the station whose name equals the query
\* case-insensitively if there is one, even when an earlier station matches
\* by substring; otherwise the first station in directory order whose
\* lower-cased name contains, or is contained in, the lower-cased query;
\* otherwise null.
C22_ExactBeforePartial ==
  (call.fn = "getStationData" /\ call.pc = "returned") =>
    LET dir == stationCoordinates
        q == toLowerCase(call.stationName)
        key(i) == toLowerCase(Spell[dir[i].name])
        same == {i \in 1..Len(dir) : key(i) = q}
        part == {i \in 1..Len(dir) : includes(key(i), q) \/ includes(q, key(i))}
    IN IF same # {}
       THEN Len(returned.value) = 1 /\ \E i \in same : returned.value[1] = dir[i]
       ELSE IF part # {}
            THEN /\ Len(returned.value) = 1
                 /\ \E i \in part : /\ returned.value[1] = dir[i]
                                    /\ \A j \in part : i <= j
            ELSE returned.value = <<>>

\* C23: getStationRouteInfo(name) returns the route whose station name equals
\* the name case-insensitively when such a route is in the list, and only
\* otherwise the first route matching by substring; it never returns an
\* earlier substring-matching route in place of an exact match.
C23_SameLayeredPolicy ==
  (call.fn = "getStationRouteInfo" /\ call.pc = "returned") =>
    LET routes == call.routeData
        q == toLowerCase(call.stationName)
        key(i) == toLowerCase(Spell[routes[i].stationName])
        same == {i \in 1..Len(routes) : key(i) = q}
        part == {i \in 1..Len(routes) : includes(key(i), q) \/ includes(q, key(i))}
    IN IF same # {}
       THEN Len(returned.value) = 1 /\ \E i \in same : returned.value[1] = routes[i]
       ELSE IF part # {}
            THEN /\ Len(returned.value) = 1
                 /\ \E i \in part : /\ returned.value[1] = routes[i]
                                    /\ \A j \in part : i <= j
            ELSE returned.value = <<>>

\* C24: findRelevantIndoorConnections(from, to, d) returns, in catalog order
\* and a connection's forward edge before its reverse, the forward edge of a
\* connection iff dist(from, start) <= d and dist(end, to) <= d, and a
\* reversed edge (endpoints swapped, same distance, duration and features)
\* iff the connection is bidirectional and dist(from, end) <= d and
\* dist(start, to) <= d; a one-way connection yields no reverse edge and the
\* catalog is left unchanged.
C24_RelevantEdges ==
  (call.fn = "findRelevantIndoorConnections" /\ call.pc = "returned") =>
    LET catalog == call.catalog
        d == call.maxDetourMeters
        relevant == returned.value.relevant
        \* slot 2i-1 is the forward edge of entry i, slot 2i its reverse
        entry(k) == catalog[(k + 1) \div 2]
        present == {k \in 1..(2 * Len(catalog)) :
                      IF k % 2 = 1
                      THEN /\ haversineMeters(call.from, entry(k).start.coordinates) <= d
                           /\ haversineMeters(entry(k).end.coordinates, call.to) <= d
                      ELSE /\ entry(k).isBidirectional
                           /\ haversineMeters(call.from, entry(k).end.coordinates) <= d
                           /\ haversineMeters(entry(k).start.coordinates, call.to) <= d}
        nth(p) == CHOOSE k \in present : Cardinality({j \in present : j <= k}) = p
    IN /\ Len(relevant) = Cardinality(present)
       /\ \A p \in 1..Len(relevant) :
            IF nth(p) % 2 = 1
            THEN relevant[p] = entry(nth(p))
            ELSE /\ relevant[p].start = entry(nth(p)).end
                 /\ relevant[p].end = entry(nth(p)).start
                 /\ relevant[p].distance = entry(nth(p)).distance
                 /\ relevant[p].duration = entry(nth(p)).duration
                 /\ relevant[p].features = entry(nth(p)).features
       /\ returned.value.indoorConnections = call.catalog

\* C24 witness: a call that returned the first connection's forward edge,
\* then its reverse, then the forward edge of a one-way connection whose
\* reverse would also be within the limit.
C24_Witness ==
  /\ call.fn = "findRelevantIndoorConnections"
  /\ call.pc = "returned"
  /\ Len(call.catalog) = 2
  /\ ~call.catalog[2].isBidirectional
  /\ Len(returned.value.relevant) = 3
  /\ returned.value.relevant[1] = call.catalog[1]
  /\ returned.value.relevant[2].start = call.catalog[1].end
  /\ returned.value.relevant[3] = call.catalog[2]
  /\ haversineMeters(call.from, call.catalog[2].end.coordinates) <= call.maxDetourMeters
  /\ haversineMeters(call.catalog[2].start.coordinates, call.to) <= call.maxDetourMeters

C26_MarkersAreTracked ==
  (pending = {} /\ \A r \in res : r.pc # "awaitMarkers") =>
    /\ mapMarkers = MarkerSet(endpointMarkers)
    /\ Cardinality(mapMarkers) <= 2
    /\ \A m \in mapMarkers :
         m.pin = "station" =>
           \E k \in 1..Len(routeData) : /\ routeData[k].routeId = activeRouteId
                                        /\ routeData[k].coordinates = m.lngLat

\* The case C26 names: both creations of two back-to-back switchActiveRoute
\* calls have completed, no call was made in between or after, and a marker
\* of the first call is on the map but not in the list.
C26_DoubleSwitchLeak ==
  /\ pending = {}
  /\ res = {}
  /\ \E m \in mapMarkers \ MarkerSet(endpointMarkers) :
       /\ m.by.op = "switchActiveRoute"
       /\ ~m.by.superseded
       /\ \E t \in MarkerSet(endpointMarkers) :
            /\ t.by.op = "switchActiveRoute"
            /\ t.by.n = m.by.n + 1

\* C27: once every continuation has run, after any sequence of fetchRoutes,
\* clearRoutes and switchActiveRoute, the active route id is null or the id
\* of a route in the published list.
C27_ActiveIdIsPublished ==
  Quiescent =>
    \/ activeRouteId = NULL
    \/ \E k \in 1..Len(routeData) : routeData[k].routeId = activeRouteId

\* The case C27 names: a fetchRoutes that found no station, after an earlier
\* successful resolution and with no switchActiveRoute call, has returned;
\* the list is empty and the active route id is still the earlier one.
C27_StaleAfterNoStations ==
  /\ Quiescent
  /\ switchCount = 0
  /\ fetchCount >= 2
  /\ resolveStations(current.location) = <<>>
  /\ routeData = <<>>
  /\ activeRouteId # NULL

\* C28: the loading flag is true exactly while a resolution whose token is
\* not aborted is in flight; in particular it is false once the
\* continuations of a resolution cancelled by clearRoutes have run.
C28_LoadingIffInFlight ==
  isLoading <=> (\E r \in res : r.gen \notin aborted)

\* The case C28 names: clearRoutes cancelled the resolution in flight, its
\* continuations have run, no token is live and the flag is still true.
C28_LoadingAfterClear ==
  /\ Quiescent
  /\ abortRef = 0
  /\ fetchCount >= 1
  /\ fetchCount \in aborted
  /\ isLoading

\* C29: when a resolution completes and some exit of a candidate station has
\* a successful candidate with duration in (0, 900], the station is in the
\* published list: choosing the exit by score before filtering by raw
\* duration never drops a station that has a reachable exit.
C29_ReachableStationIsPublished ==
  (call.fn = "resolve" /\ call.pc = "returned") =>
    LET combos == allExitCombos(resolveStations(call.location))
        results == returned.value.directionsResults
        walk == returned.value.walkableRoutes
    IN \A i \in 1..Len(combos) :
         (/\ results[i].status = "fulfilled"
          /\ results[i].value.success
          /\ results[i].value.duration > 0
          /\ results[i].value.duration <= MAX_WALK_SECONDS)
         => \E k \in 1..Len(walk) : walk[k].stationName = combos[i].station.name

\* The case C29 names: a station's exit has an indoor candidate of 300 s,
\* another exit of the station answered with a lower score, and the station
\* is not in the published list.
C29_DroppedByScore ==
  /\ call.fn = "resolve"
  /\ call.pc = "returned"
  /\ \E i \in 1..Len(returned.value.directionsResults) :
       /\ returned.value.directionsResults[i].value.isIndoor
       /\ returned.value.directionsResults[i].value.duration = 300
  /\ \E b \in 1..Len(returned.value.stationBestExits) :
       /\ returned.value.stationBestExits[b].key = "KL Sentral"
       /\ ~returned.value.stationBestExits[b].route.isIndoor
  /\ \A k \in 1..Len(returned.value.walkableRoutes) :
       returned.value.walkableRoutes[k].stationName # "KL Sentral"

\* C30: after any sequence of resolutions on one map, a click on a drawn
\* route layer calls switchActiveRoute only with the destination of the
\* current resolution: listeners registered by an earlier resolution for a
\* reused layer id no longer fire, and no endpoint marker is placed at an
\* earlier destination's coordinates.
C30_ClicksUseCurrentDestination ==
  [][\A p \in pending' :
       (p \notin pending /\ ~p.superseded) => p.start = current.location]_vars

\* The case C30 names: two resolutions were made and no other call but one
\* click, which called switchActiveRoute twice; the markers of the second
\* call are tracked at the current destination, those of the first are on
\* the map at the destination of the earlier resolution.
C30_MarkerAtEarlierDestination ==
  /\ Quiescent
  /\ fetchCount = 2
  /\ switchCount = 2
  /\ \E t \in MarkerSet(endpointMarkers) :
       /\ t.by = CreatedBy("switchActiveRoute", 2, FALSE)
       /\ t.pin = "venue"
       /\ t.lngLat = current.location
  /\ \E m \in mapMarkers :
       /\ m.by = CreatedBy("switchActiveRoute", 1, FALSE)
       /\ m.pin = "venue"
       /\ m.lngLat # current.location

====
